---- MODULE Spec2Model ----
(***************************************************************************)
(* Model of pages/2_Savings_Planner.py: the projection engine              *)
(* calculate_savings_projection, the goal-submission helper                *)
(* create_savings_goal and the submit branch of main.                      *)
(*                                                                         *)
(* Numbers.  The engine is written in Python and divides with "/", so its  *)
(* results are IEEE-754 binary64 values even when every argument is an     *)
(* int.  A number is modelled as the record [neg, m, e] that stands for    *)
(* (-1)^neg * m * 2^e, where m is a natural number kept as a sequence of   *)
(* limbs (least significant first) and is odd, or empty for zero.  Every   *)
(* operation computes the exact result and rounds it to Precision          *)
(* significant bits, ties to even, as the hardware does.  Python ints in   *)
(* the ranges explored are below 2^53, where int arithmetic and binary64   *)
(* arithmetic agree exactly, so ints use the same representation.  The     *)
(* inputs explored stay far from the binary64 exponent limits, so inf, NaN *)
(* and subnormals do not arise; -0.0 is identified with 0 (Python compares *)
(* them equal).                                                            *)
(***************************************************************************)
EXTENDS Integers, Sequences, FiniteSets, TLC

\* ------------------------------------------------------------------------
\* Natural numbers of arbitrary size: limbs in base 2^LimbBits.
\* ------------------------------------------------------------------------

LimbBits == 14

Base == 2^LimbBits

\* Significant bits of a binary64 value (Python float).
Precision == 53

Limb(a, i) == IF i >= 1 /\ i <= Len(a) THEN a[i] ELSE 0

RECURSIVE NNorm(_)
NNorm(a) ==
    IF a = <<>> THEN a
    ELSE IF a[Len(a)] = 0 THEN NNorm(SubSeq(a, 1, Len(a) - 1))
    ELSE a

RECURSIVE NFromInt(_)
NFromInt(n) == IF n = 0 THEN <<>> ELSE <<n % Base>> \o NFromInt(n \div Base)

RECURSIVE NAddFrom(_, _, _, _)
NAddFrom(a, b, i, carry) ==
    IF i > Len(a) /\ i > Len(b)
    THEN (IF carry = 0 THEN <<>> ELSE <<carry>>)
    ELSE LET s == Limb(a, i) + Limb(b, i) + carry
         IN  <<s % Base>> \o NAddFrom(a, b, i + 1, s \div Base)

NAdd(a, b) == NAddFrom(a, b, 1, 0)

\* a - b for a >= b
RECURSIVE NSubFrom(_, _, _, _)
NSubFrom(a, b, i, borrow) ==
    IF i > Len(a) THEN <<>>
    ELSE LET d == a[i] - Limb(b, i) - borrow
         IN  IF d < 0 THEN <<d + Base>> \o NSubFrom(a, b, i + 1, 1)
                      ELSE <<d>> \o NSubFrom(a, b, i + 1, 0)

NSub(a, b) == NNorm(NSubFrom(a, b, 1, 0))

RECURSIVE NCmpAt(_, _, _)
NCmpAt(a, b, i) ==
    IF i = 0 THEN 0
    ELSE IF a[i] # b[i] THEN (IF a[i] < b[i] THEN -1 ELSE 1)
    ELSE NCmpAt(a, b, i - 1)

\* -1, 0 or 1 as a < b, a = b, a > b
NCmp(a, b) ==
    IF Len(a) # Len(b) THEN (IF Len(a) < Len(b) THEN -1 ELSE 1)
    ELSE NCmpAt(a, b, Len(a))

RECURSIVE NMulSmallFrom(_, _, _, _)
NMulSmallFrom(a, d, i, carry) ==
    IF i > Len(a)
    THEN (IF carry = 0 THEN <<>> ELSE <<carry>>)
    ELSE LET p == a[i] * d + carry
         IN  <<p % Base>> \o NMulSmallFrom(a, d, i + 1, p \div Base)

\* a * d for one limb d
NMulSmall(a, d) == IF d = 0 THEN <<>> ELSE NMulSmallFrom(a, d, 1, 0)

NShiftLimbs(a, k) == IF a = <<>> THEN a ELSE [i \in 1..k |-> 0] \o a

RECURSIVE NMulFrom(_, _, _)
NMulFrom(a, b, j) ==
    IF j > Len(b) THEN <<>>
    ELSE NAdd(NMulSmall(a, b[j]), NShiftLimbs(NMulFrom(a, b, j + 1), 1))

NMul(a, b) == IF Len(a) >= Len(b) THEN NMulFrom(a, b, 1) ELSE NMulFrom(b, a, 1)

RECURSIVE BitLen(_)
BitLen(d) == IF d = 0 THEN 0 ELSE 1 + BitLen(d \div 2)

NBitLen(a) == IF a = <<>> THEN 0 ELSE (Len(a) - 1) * LimbBits + BitLen(a[Len(a)])

\* bit i of a, bit 1 the least significant
NBit(a, i) == (Limb(a, (i - 1) \div LimbBits + 1) \div 2^((i - 1) % LimbBits)) % 2

\* a * 2^s
NShl(a, s) ==
    LET t == s % LimbBits
        p == 2^t
        x == NNorm([i \in 1..(Len(a) + 1) |->
                      ((Limb(a, i) * p) % Base) + ((Limb(a, i - 1) * p) \div Base)])
    IN  NShiftLimbs(x, s \div LimbBits)

\* floor(a / 2^s)
NShr(a, s) ==
    LET k == s \div LimbBits
        t == s % LimbBits
        p == 2^t
        h == IF k >= Len(a) THEN <<>> ELSE SubSeq(a, k + 1, Len(a))
    IN  NNorm([i \in 1..Len(h) |->
                 (h[i] \div p) + (Limb(h, i + 1) % p) * 2^(LimbBits - t)])

\* one step of long division: st is <<quotient, remainder>> of the bits of a
\* above bit i, the result that of the bits from bit i up
NDivBit(a, b, i, st) ==
    LET r2 == NAddFrom(st[2], st[2], 1, NBit(a, i))
        ge == NCmp(r2, b) >= 0
    IN  <<NAddFrom(st[1], st[1], 1, IF ge THEN 1 ELSE 0),
          IF ge THEN NSub(r2, b) ELSE r2>>

\* the steps for bits hi down to lo, split in halves.  TLC evaluates operator
\* arguments on demand; looking at the upper half's result before the lower
\* half starts keeps the evaluation depth logarithmic in the number of bits.
RECURSIVE NDivRange(_, _, _, _, _)
NDivRange(a, b, hi, lo, st) ==
    IF hi = lo THEN NDivBit(a, b, hi, st)
    ELSE LET mid   == (hi + lo) \div 2
             upper == NDivRange(a, b, hi, mid + 1, st)
         IN  IF Len(upper) = 2 THEN NDivRange(a, b, mid, lo, upper) ELSE upper

\* short division by one limb d, limbs i and up: <<quotient limbs, remainder>>
RECURSIVE NDivSmallFrom(_, _, _)
NDivSmallFrom(a, d, i) ==
    IF i > Len(a) THEN <<<<>>, 0>>
    ELSE LET up  == NDivSmallFrom(a, d, i + 1)
             cur == up[2] * Base + a[i]
         IN  <<<<cur \div d>> \o up[1], cur % d>>

\* <<floor(a / b), a mod b>> for b # 0
NDivMod(a, b) ==
    IF a = <<>> THEN <<a, a>>
    ELSE IF Len(b) = 1
         THEN LET qr == NDivSmallFrom(a, b[1], 1)
              IN  <<NNorm(qr[1]), NFromInt(qr[2])>>
         ELSE NDivRange(a, b, NBitLen(a), 1, <<<<>>, <<>>>>)

\* number of trailing zero bits of d # 0, one limb
RECURSIVE TrailingZeros(_)
TrailingZeros(d) == IF d % 2 = 1 THEN 0 ELSE 1 + TrailingZeros(d \div 2)

\* number of trailing zero bits of a # 0, looking from limb i on
RECURSIVE NTrailingZeros(_, _)
NTrailingZeros(a, i) ==
    IF a[i] = 0 THEN LimbBits + NTrailingZeros(a, i + 1) ELSE TrailingZeros(a[i])

\* ------------------------------------------------------------------------
\* Python numbers (binary64 semantics of + - * / and comparison).
\* ------------------------------------------------------------------------

Zero == [neg |-> FALSE, m |-> <<>>, e |-> 0]

IsZero(x) == x.m = <<>>

\* the exact value M * 2^E with its trailing zero bits moved into the exponent
Canonical(neg, M, E) ==
    LET tz == NTrailingZeros(M, 1)
    IN  [neg |-> neg, m |-> NShr(M, tz), e |-> E + tz]

\* the binary64 value nearest to (-1)^neg * M * 2^E, ties to even
Round(neg, M, E) ==
    IF M = <<>> THEN Zero
    ELSE LET L == NBitLen(M)
         IN  IF L <= Precision THEN Canonical(neg, M, E)
             ELSE LET s    == L - Precision
                      q    == NShr(M, s)
                      rem  == NSub(M, NShl(q, s))
                      c    == NCmp(rem, NShl(<<1>>, s - 1))
                      up   == c > 0 \/ (c = 0 /\ NBit(q, 1) = 1)
                  IN  Canonical(neg, IF up THEN NAdd(q, <<1>>) ELSE q, E + s)

\* a Python int
FromInt(n) == IF n < 0 THEN Round(TRUE, NFromInt(-n), 0) ELSE Round(FALSE, NFromInt(n), 0)

FNeg(x) == IF IsZero(x) THEN x ELSE [x EXCEPT !.neg = ~x.neg]

\* x * y
FMul(x, y) == Round(x.neg # y.neg, NMul(x.m, y.m), x.e + y.e)

\* x + y
FAdd(x, y) ==
    IF IsZero(x) THEN y
    ELSE IF IsZero(y) THEN x
    ELSE LET e == IF x.e < y.e THEN x.e ELSE y.e
             X == NShl(x.m, x.e - e)
             Y == NShl(y.m, y.e - e)
             c == NCmp(X, Y)
         IN  IF x.neg = y.neg THEN Round(x.neg, NAdd(X, Y), e)
             ELSE IF c = 0 THEN Zero
             ELSE IF c > 0 THEN Round(x.neg, NSub(X, Y), e)
             ELSE Round(y.neg, NSub(Y, X), e)

\* x - y
FSub(x, y) == FAdd(x, FNeg(y))

\* x / y for y # 0 (Python raises ZeroDivisionError otherwise; the callers branch)
FDiv(x, y) ==
    IF IsZero(x) THEN Zero
    ELSE LET d  == Precision + 2 + NBitLen(y.m) - NBitLen(x.m)
             k  == IF d > 0 THEN d ELSE 0
             qr == NDivMod(NShl(x.m, k), y.m)
             M  == NAdd(NShl(qr[1], 1), IF qr[2] = <<>> THEN <<>> ELSE <<1>>)
         IN  Round(x.neg # y.neg, M, x.e - y.e - k - 1)

\* x < y
FLt(x, y) == FSub(x, y).neg

\* x > y
FGt(x, y) == FLt(y, x)

\* x <= y
FLe(x, y) == ~FLt(y, x)

\* max(a, b) of Python: a unless b is greater
PyMax(a, b) == IF FGt(b, a) THEN b ELSE a

\* min(a, b) of Python: a unless b is smaller
PyMin(a, b) == IF FLt(b, a) THEN b ELSE a

\* the float nearest to p/q, the value of a decimal literal such as 0.1
Decimal(p, q) == FDiv(FromInt(p), FromInt(q))

\* ------------------------------------------------------------------------
\* Bounds and input domains.
\* ------------------------------------------------------------------------

\* calendar years explored: FirstYear .. FirstYear + YearSpan
YearSpan == 1

FirstYear == 2024

\* invocations of the engine that may be in progress at once
NumCalls == 2

Calls == 1..NumCalls

Date(y, m, d) == [year |-> y, month |-> m, day |-> d]

NoDate == Date(0, 0, 0)

\* date.__le__ : dates compare as (year, month, day)
DateLe(a, b) ==
    \/ a.year < b.year
    \/ a.year = b.year /\ a.month < b.month
    \/ a.year = b.year /\ a.month = b.month /\ a.day <= b.day

StartDates == {Date(FirstYear, 6, 15), Date(FirstYear, 12, 15)}

TargetDates ==
    {Date(y, m, d) : y \in FirstYear..(FirstYear + YearSpan), m \in {1, 6, 12}, d \in {1, 15}}

TargetAmounts == {FromInt(0), FromInt(15000), Decimal(3, 10), FromInt(-1000)}

MonthlySavings == {FromInt(0), FromInt(5000), Decimal(1, 10), FromInt(-500)}

\* the narrow domain used when invocations interleave
ConcurrentTargetAmounts == {FromInt(15000)}

ConcurrentMonthlySavings == {FromInt(5000), Decimal(1, 10)}

ConcurrentStartDates == {Date(FirstYear, 6, 15)}

ConcurrentTargetDates == {Date(FirstYear, 8, 1)}

\* ------------------------------------------------------------------------
\* calculate_savings_projection, statement by statement.
\* ------------------------------------------------------------------------

\* line 38
MonthsBetween(s, d) == (d.year - s.year) * 12 + (d.month - s.month)

ClampMonthsBelowZero(months) == IF months < 0 THEN 1 ELSE months

\* lines 40-41
ClampMonths(months) == IF months <= 0 THEN 1 ELSE months

\* line 43
TotalSaved(monthly, months) == FMul(monthly, FromInt(months))

ShortfallSigned(target, total) == FSub(target, total)

\* line 44
Shortfall(target, total) == PyMax(Zero, FSub(target, total))

\* the guard "if months_to_target > 0" of lines 45 and 54
MonthsGuard(months) == months > 0

\* a division by months_to_target that raises ZeroDivisionError
MonthsDivisionRaises(months) == MonthsGuard(months) /\ months = 0

\* line 45
RequiredMonthly(target, months) ==
    IF MonthsGuard(months) THEN FDiv(target, FromInt(months)) ELSE Zero

\* line 54
TargetLine(target, months, month) ==
    IF MonthsGuard(months)
    THEN FMul(FDiv(target, FromInt(months)), FromInt(month))
    ELSE Zero

LoopBoundShort(months) == months

\* line 50: the iterations of range(months_to_target + 1)
LoopBound(months) == months + 1

SuccessGuardNonNegative(target) == ~target.neg

\* the guard "if target_amount > 0" of line 64
SuccessGuard(target) == FGt(target, Zero)

\* the division by target_amount of line 64 raises ZeroDivisionError
SuccessDivisionRaises(target) == SuccessGuard(target) /\ IsZero(target)

SuccessRateUncapped(total, target) ==
    IF SuccessGuard(target) THEN FMul(FDiv(total, target), FromInt(100)) ELSE Zero

\* line 64
SuccessRate(total, target) ==
    IF SuccessGuard(target)
    THEN PyMin(FromInt(100), FMul(FDiv(total, target), FromInt(100)))
    ELSE Zero

\* lines 51-55: the entry appended in iteration month
Entry(month, amount, target, months) ==
    [month |-> month, amount |-> amount, target_line |-> TargetLine(target, months, month)]

Raised == [status |-> "ZeroDivisionError"]

NoResult == [status |-> "none"]

\* lines 58-65
Returned(months, total, short, required, proj, target) ==
    [status           |-> "ok",
     months_to_target |-> months,
     total_saved      |-> total,
     shortfall        |-> short,
     required_monthly |-> required,
     projection       |-> proj,
     success_rate     |-> SuccessRate(total, target)]

\* lines 48-56 run to the end: the first n entries of the timeline
RECURSIVE Timeline(_, _, _, _)
Timeline(target, monthly, months, n) ==
    IF n = 0 THEN <<>>
    ELSE LET prev == Timeline(target, monthly, months, n - 1)
         IN  Append(prev, Entry(n - 1,
                                IF n = 1 THEN Zero ELSE FAdd(prev[n - 1].amount, monthly),
                                target, months))

\* lines 36-65 run alone, start to end
calculate_savings_projection(target, monthly, s, d) ==
    LET months == ClampMonths(MonthsBetween(s, d))
        total  == TotalSaved(monthly, months)
    IN  IF MonthsDivisionRaises(months) \/ SuccessDivisionRaises(target)
        THEN Raised
        ELSE Returned(months, total, Shortfall(target, total),
                      RequiredMonthly(target, months),
                      Timeline(target, monthly, months, LoopBound(months)),
                      target)

\* ------------------------------------------------------------------------
\* State: one frame of locals per invocation, and the page.
\* ------------------------------------------------------------------------

VARIABLES
    pc,                \* where each invocation stands
    target_amount, monthly_saving, start_date, target_date,   \* its arguments
    months_to_target, total_saved, shortfall, required_monthly,
    projection, current_amount, month,                         \* its locals
    result,            \* what it returned
    divisors,          \* history: the divisors it has divided by
    overlap,           \* history: one of its loop steps ran while another
                       \* invocation was in the middle of its loop
    page_pc, goal_name, pressed, response, notices, posted     \* main

engine_vars ==
    <<pc, target_amount, monthly_saving, start_date, target_date,
      months_to_target, total_saved, shortfall, required_monthly,
      projection, current_amount, month, result, divisors, overlap>>

page_vars == <<page_pc, goal_name, pressed, response, notices, posted>>

vars == <<engine_vars, page_vars>>

LocalShared(c) == 1

\* the frame that holds invocation c's accumulators projection and
\* current_amount: they are locals (lines 48-49), so its own
Local(c) == c

\* a fresh frame for (target, monthly, s, d): line 36, and line 38
Enter(c, target, monthly, s, d) ==
    /\ pc' = [pc EXCEPT ![c] = "clamp"]
    /\ target_amount' = [target_amount EXCEPT ![c] = target]
    /\ monthly_saving' = [monthly_saving EXCEPT ![c] = monthly]
    /\ start_date' = [start_date EXCEPT ![c] = s]
    /\ target_date' = [target_date EXCEPT ![c] = d]
    /\ months_to_target' = [months_to_target EXCEPT ![c] = MonthsBetween(s, d)]
    /\ result' = [result EXCEPT ![c] = NoResult]
    /\ divisors' = [divisors EXCEPT ![c] = {}]
    /\ overlap' = [overlap EXCEPT ![c] = FALSE]
    /\ UNCHANGED <<total_saved, shortfall, required_monthly, projection,
                   current_amount, month>>

\* the frame is dropped when the caller has the result
Leave(c) ==
    /\ pc' = [pc EXCEPT ![c] = "idle"]
    /\ target_amount' = [target_amount EXCEPT ![c] = Zero]
    /\ monthly_saving' = [monthly_saving EXCEPT ![c] = Zero]
    /\ start_date' = [start_date EXCEPT ![c] = NoDate]
    /\ target_date' = [target_date EXCEPT ![c] = NoDate]
    /\ months_to_target' = [months_to_target EXCEPT ![c] = 0]
    /\ total_saved' = [total_saved EXCEPT ![c] = Zero]
    /\ shortfall' = [shortfall EXCEPT ![c] = Zero]
    /\ required_monthly' = [required_monthly EXCEPT ![c] = Zero]
    /\ month' = [month EXCEPT ![c] = 0]
    /\ result' = [result EXCEPT ![c] = NoResult]
    /\ divisors' = [divisors EXCEPT ![c] = {}]
    /\ overlap' = [overlap EXCEPT ![c] = FALSE]
    /\ projection' = [projection EXCEPT ![Local(c)] = <<>>]
    /\ current_amount' = [current_amount EXCEPT ![Local(c)] = Zero]

\* an exception leaves the function
Raise(c) ==
    /\ pc' = [pc EXCEPT ![c] = "raised"]
    /\ result' = [result EXCEPT ![c] = Raised]

\* a caller invokes the engine
Call(c, targets, monthlies, starts, dates) ==
    /\ pc[c] = "idle"
    /\ \E target \in targets, monthly \in monthlies, s \in starts, d \in dates :
           Enter(c, target, monthly, s, d)
    /\ UNCHANGED page_vars

\* lines 40-41
Clamp(c) ==
    /\ pc[c] = "clamp"
    /\ months_to_target' = [months_to_target EXCEPT ![c] = ClampMonths(months_to_target[c])]
    /\ pc' = [pc EXCEPT ![c] = "derive"]
    /\ UNCHANGED <<target_amount, monthly_saving, start_date, target_date,
                   total_saved, shortfall, required_monthly, projection,
                   current_amount, month, result, divisors, overlap, page_vars>>

\* lines 43-49
Derive(c) ==
    /\ pc[c] = "derive"
    /\ LET total == TotalSaved(monthly_saving[c], months_to_target[c])
       IN  /\ total_saved' = [total_saved EXCEPT ![c] = total]
           /\ shortfall' = [shortfall EXCEPT ![c] = Shortfall(target_amount[c], total)]
    /\ IF MonthsDivisionRaises(months_to_target[c])
       THEN /\ Raise(c)
            /\ divisors' = [divisors EXCEPT ![c] = @ \cup {Zero}]
            /\ UNCHANGED <<required_monthly, projection, current_amount, month>>
       ELSE /\ required_monthly' =
                  [required_monthly EXCEPT ![c] =
                      RequiredMonthly(target_amount[c], months_to_target[c])]
            /\ divisors' =
                  [divisors EXCEPT ![c] =
                      IF MonthsGuard(months_to_target[c])
                      THEN @ \cup {FromInt(months_to_target[c])} ELSE @]
            /\ projection' = [projection EXCEPT ![Local(c)] = <<>>]
            /\ current_amount' = [current_amount EXCEPT ![Local(c)] = Zero]
            /\ month' = [month EXCEPT ![c] = 0]
            /\ pc' = [pc EXCEPT ![c] = "loop"]
            /\ UNCHANGED result
    /\ UNCHANGED <<target_amount, monthly_saving, start_date, target_date,
                   months_to_target, overlap, page_vars>>

\* another invocation is in the middle of its loop
MidLoopElsewhere(c) ==
    \E o \in Calls \ {c} :
        pc[o] = "loop" /\ month[o] >= 1 /\ month[o] < LoopBound(months_to_target[o])

\* lines 50-56: one iteration of the loop
LoopStep(c) ==
    /\ pc[c] = "loop"
    /\ month[c] < LoopBound(months_to_target[c])
    /\ IF MonthsDivisionRaises(months_to_target[c])
       THEN /\ Raise(c)
            /\ divisors' = [divisors EXCEPT ![c] = @ \cup {Zero}]
            /\ UNCHANGED <<projection, current_amount, month>>
       ELSE /\ projection' =
                  [projection EXCEPT ![Local(c)] =
                      Append(@, Entry(month[c], current_amount[Local(c)],
                                      target_amount[c], months_to_target[c]))]
            /\ current_amount' =
                  [current_amount EXCEPT ![Local(c)] = FAdd(@, monthly_saving[c])]
            /\ month' = [month EXCEPT ![c] = @ + 1]
            /\ divisors' =
                  [divisors EXCEPT ![c] =
                      IF MonthsGuard(months_to_target[c])
                      THEN @ \cup {FromInt(months_to_target[c])} ELSE @]
            /\ UNCHANGED <<pc, result>>
    /\ overlap' = [overlap EXCEPT ![c] = @ \/ MidLoopElsewhere(c)]
    /\ UNCHANGED <<target_amount, monthly_saving, start_date, target_date,
                   months_to_target, total_saved, shortfall, required_monthly,
                   page_vars>>

\* lines 58-65, once the loop is over
Return(c) ==
    /\ pc[c] = "loop"
    /\ month[c] >= LoopBound(months_to_target[c])
    /\ IF SuccessDivisionRaises(target_amount[c])
       THEN /\ Raise(c)
            /\ divisors' = [divisors EXCEPT ![c] = @ \cup {Zero}]
       ELSE /\ result' =
                  [result EXCEPT ![c] =
                      Returned(months_to_target[c], total_saved[c], shortfall[c],
                               required_monthly[c], projection[Local(c)],
                               target_amount[c])]
            /\ divisors' =
                  [divisors EXCEPT ![c] =
                      IF SuccessGuard(target_amount[c])
                      THEN @ \cup {target_amount[c]} ELSE @]
            /\ pc' = [pc EXCEPT ![c] = "done"]
    /\ UNCHANGED <<target_amount, monthly_saving, start_date, target_date,
                   months_to_target, total_saved, shortfall, required_monthly,
                   projection, current_amount, month, overlap, page_vars>>

\* the caller takes the result (or the exception) and the frame is gone
Collect(c) ==
    /\ pc[c] \in {"done", "raised"}
    /\ Leave(c)
    /\ UNCHANGED page_vars

Init ==
    /\ pc = [c \in Calls |-> "idle"]
    /\ target_amount = [c \in Calls |-> Zero]
    /\ monthly_saving = [c \in Calls |-> Zero]
    /\ start_date = [c \in Calls |-> NoDate]
    /\ target_date = [c \in Calls |-> NoDate]
    /\ months_to_target = [c \in Calls |-> 0]
    /\ total_saved = [c \in Calls |-> Zero]
    /\ shortfall = [c \in Calls |-> Zero]
    /\ required_monthly = [c \in Calls |-> Zero]
    /\ projection = [c \in Calls |-> <<>>]
    /\ current_amount = [c \in Calls |-> Zero]
    /\ month = [c \in Calls |-> 0]
    /\ result = [c \in Calls |-> NoResult]
    /\ divisors = [c \in Calls |-> {}]
    /\ overlap = [c \in Calls |-> FALSE]
    /\ page_pc = "form"
    /\ goal_name = <<>>
    /\ pressed = FALSE
    /\ response = [kind |-> "none"]
    /\ notices = <<>>
    /\ posted = 0

\* one invocation at a time, over the whole input domain
Next ==
    \/ Call(1, TargetAmounts, MonthlySavings, StartDates, TargetDates)
    \/ Clamp(1)
    \/ Derive(1)
    \/ LoopStep(1)
    \/ Return(1)
    \/ Collect(1)

Spec == Init /\ [][Next]_vars

\* several invocations, their steps interleaved
NextConcurrent ==
    \E c \in Calls :
        \/ Call(c, ConcurrentTargetAmounts, ConcurrentMonthlySavings,
                ConcurrentStartDates, ConcurrentTargetDates)
        \/ Clamp(c)
        \/ Derive(c)
        \/ LoopStep(c)
        \/ Return(c)
        \/ Collect(c)

SpecConcurrent == Init /\ [][NextConcurrent]_vars

\* ------------------------------------------------------------------------
\* main: the form run, and create_savings_goal.
\* ------------------------------------------------------------------------

\* JSON values as response.json() decodes them (None, bool, int, str, list, dict)
JNull == [t |-> "null"]

JBool(b) == [t |-> "bool", v |-> b]

JNum(n) == [t |-> "number", v |-> n]

JStr(x) == [t |-> "string", v |-> x]

JArr(items) == [t |-> "array", v |-> items]

JObj(fields) == [t |-> "object", v |-> fields]

\* bool(x) of Python
Truthy(x) ==
    CASE x.t = "null"   -> FALSE
      [] x.t = "bool"   -> x.v
      [] x.t = "number" -> x.v # 0
      [] x.t = "string" -> x.v # ""
      [] x.t = "array"  -> x.v # <<>>
      [] x.t = "object" -> DOMAIN x.v # {}

\* only a dict has .get; on anything else the lookup raises AttributeError
HasGet(x) == x.t = "object"

\* dict.get(key): the value, or None
Get(x, key) == IF key \in DOMAIN x.v THEN x.v[key] ELSE JNull

SuccessValues ==
    {JBool(TRUE), JBool(FALSE), JNull, JNum(1), JNum(0), JStr("ok"), JStr("")}

Bodies ==
    {JNull, JBool(TRUE), JBool(FALSE), JNum(0), JNum(1), JStr(""), JStr("ok"),
     JArr(<<>>), JArr(<<JNum(1)>>), JObj(<<>>), JObj([error |-> JStr("down")])}
    \cup {JObj([success |-> x]) : x \in SuccessValues}
    \cup {JObj([success |-> x, error |-> JStr("down")]) : x \in SuccessValues}

\* a body that is no JSON at all: response.json() raises
NotJson == [t |-> "invalid"]

StatusCodes == {200, 201, 500}

\* what requests.post can do: raise, or answer
Responses ==
    {[kind |-> "ConnectionError"], [kind |-> "Timeout"]}
    \cup {[kind |-> "http", status |-> code, json |-> body] :
             code \in StatusCodes, body \in Bodies \cup {NotJson}}

\* lines 22-34: the decoded body of a 200 answer, None otherwise
create_savings_goal(resp) ==
    IF resp.kind # "http" THEN JNull
    ELSE IF resp.status = 200
         THEN (IF resp.json = NotJson THEN JNull ELSE resp.json)
         ELSE JNull

Whitespace == {" ", "\t"}

RECURSIVE lstrip(_)
lstrip(x) == IF x # <<>> /\ Head(x) \in Whitespace THEN lstrip(Tail(x)) ELSE x

RECURSIVE rstrip(_)
rstrip(x) ==
    IF x # <<>> /\ x[Len(x)] \in Whitespace THEN rstrip(SubSeq(x, 1, Len(x) - 1)) ELSE x

\* str.strip(), a string being the sequence of its characters
strip(x) == rstrip(lstrip(x))

GoalNames == {<<>>, <<" ", " ">>, <<"\t">>, <<"C", "a", "r">>, <<" ", "C", " ">>}

\* date.today()
Today == Date(FirstYear, 6, 15)

\* the form's widgets: lines 93-99 and 104
FormTargetAmounts == {FromInt(1000), FromInt(15000)}

FormMonthlySavings == {FromInt(500), FromInt(5000)}

FormDates == {d \in TargetDates : DateLe(Today, d)}

\* lines 88-120: the script runs with the form's values; the projection is
\* asked for when both amounts are positive
PageRun ==
    /\ page_pc = "form"
    /\ pc[1] = "idle"
    /\ \E name \in GoalNames, press \in BOOLEAN, target \in FormTargetAmounts,
          monthly \in FormMonthlySavings, d \in FormDates :
           /\ goal_name' = name
           /\ pressed' = press
           /\ IF FGt(target, Zero) /\ FGt(monthly, Zero)
              THEN /\ Enter(1, target, monthly, Today, d)
                   /\ page_pc' = "projection"
              ELSE /\ page_pc' = "submit"
                   /\ UNCHANGED engine_vars
    /\ UNCHANGED <<response, notices, posted>>

\* lines 121-135: the metrics and the chart are drawn from the result
ShowProjection ==
    /\ page_pc = "projection"
    /\ pc[1] \in {"done", "raised"}
    /\ page_pc' = IF pc[1] = "done" THEN "submit" ELSE "crashed"
    /\ Leave(1)
    /\ UNCHANGED <<goal_name, pressed, response, notices, posted>>

\* lines 138-156: the submit button, the name check, the request
Submit ==
    /\ page_pc = "submit"
    /\ IF ~pressed
       THEN /\ page_pc' = "rendered"
            /\ UNCHANGED <<notices, posted>>
       ELSE IF strip(goal_name) = <<>>
       THEN /\ notices' = Append(notices, "enter a goal name")
            /\ page_pc' = "rendered"
            /\ UNCHANGED posted
       ELSE /\ posted' = posted + 1
            /\ page_pc' = "posting"
            /\ UNCHANGED notices
    /\ UNCHANGED <<goal_name, pressed, response, engine_vars>>

\* lines 156-160: the service's answer, through create_savings_goal
Respond ==
    /\ page_pc = "posting"
    /\ \E resp \in Responses :
           LET res == create_savings_goal(resp)
           IN  /\ response' = resp
               /\ IF ~Truthy(res)
                  THEN /\ notices' = Append(notices, "failed")
                       /\ page_pc' = "rendered"
                  ELSE IF ~HasGet(res)
                  THEN /\ page_pc' = "crashed"
                       /\ UNCHANGED notices
                  ELSE IF Truthy(Get(res, "success"))
                  THEN /\ notices' = Append(notices, "created")
                       /\ page_pc' = "rendered"
                  ELSE /\ notices' = Append(notices, "failed")
                       /\ page_pc' = "rendered"
    /\ UNCHANGED <<goal_name, pressed, posted, engine_vars>>

\* the next interaction runs the script again from the top
Rerun ==
    /\ page_pc \in {"rendered", "crashed"}
    /\ page_pc' = "form"
    /\ goal_name' = <<>>
    /\ pressed' = FALSE
    /\ response' = [kind |-> "none"]
    /\ notices' = <<>>
    /\ posted' = 0
    /\ UNCHANGED engine_vars

NextPage ==
    \/ PageRun
    \/ Clamp(1)
    \/ Derive(1)
    \/ LoopStep(1)
    \/ Return(1)
    \/ ShowProjection
    \/ Submit
    \/ Respond
    \/ Rerun

SpecPage == Init /\ [][NextPage]_vars

\* ------------------------------------------------------------------------
\* Properties of the engine.
\* ------------------------------------------------------------------------

Hundred == FromInt(100)

\* the whole-month difference of an invocation's dates, day of month ignored
RawMonths(c) ==
    (target_date[c].year - start_date[c].year) * 12
        + (target_date[c].month - start_date[c].month)

\* max(1, RawMonths(c))
Periods(c) == IF RawMonths(c) >= 1 THEN RawMonths(c) ELSE 1

\* C1: the returned timeline has months_to_target + 1 entries with period
\* indices 0, 1, ..., months_to_target in order; the first cumulative amount
\* is 0 and each later one is the one before plus monthly_contribution.
C1_Timeline ==
    \A c \in Calls :
        pc[c] = "done" =>
            LET r == result[c]
                n == r.months_to_target
            IN  /\ Len(r.projection) = n + 1
                /\ \A i \in 1..(n + 1) : r.projection[i].month = i - 1
                /\ r.projection[1].amount = Zero
                /\ \A i \in 2..(n + 1) :
                       r.projection[i].amount =
                           FAdd(r.projection[i - 1].amount, monthly_saving[c])

C1_Witness ==
    \E c \in Calls :
        /\ pc[c] = "done"
        /\ result[c].months_to_target >= 6
        /\ monthly_saving[c] = Decimal(1, 10)
        /\ Len(result[c].projection) = 7

\* C2: months_to_target is max(1, (ty - sy) * 12 + (tm - sm)), day of month
\* ignored; with target_date <= start_date the call does not fail and returns
\* a one-period projection.
C2_Periods ==
    \A c \in Calls :
        /\ pc[c] = "done" => result[c].months_to_target = Periods(c)
        /\ (pc[c] \in {"done", "raised"} /\ DateLe(target_date[c], start_date[c])) =>
               /\ pc[c] = "done"
               /\ result[c].months_to_target = 1
               /\ Len(result[c].projection) = 2

C2_Witness ==
    \E c \in Calls :
        /\ pc[c] = "done"
        /\ target_date[c].year = start_date[c].year
        /\ target_date[c].month = start_date[c].month
        /\ target_date[c].day < start_date[c].day
        /\ result[c].months_to_target = 1

\* C3: total_saved, the product monthly_contribution * months_to_target,
\* equals the cumulative amount of the last timeline entry, which the loop
\* builds by repeated addition.
C3_TotalIsLastAmount ==
    \A c \in Calls :
        pc[c] = "done" =>
            result[c].total_saved =
                result[c].projection[result[c].months_to_target + 1].amount

\* C4: shortfall is max(0, target_amount - total_saved) with the clamped
\* period count, is never negative, and is 0 when there is a surplus.
C4_Shortfall ==
    \A c \in Calls :
        pc[c] = "done" =>
            LET total == FMul(monthly_saving[c], FromInt(Periods(c)))
                gap   == FSub(target_amount[c], total)
            IN  /\ result[c].total_saved = total
                /\ result[c].shortfall = (IF gap.neg THEN Zero ELSE gap)
                /\ ~result[c].shortfall.neg
                /\ FGt(result[c].total_saved, target_amount[c]) =>
                       result[c].shortfall = Zero

C4_Witness ==
    \E c \in Calls :
        /\ pc[c] = "done"
        /\ FGt(target_amount[c], Zero)
        /\ FGt(result[c].total_saved, target_amount[c])
        /\ result[c].shortfall = Zero

\* C5: with target_amount >= 0 and monthly_contribution >= 0, success_rate is
\* within [0, 100]: min(100, total_saved / target_amount * 100) when
\* target_amount > 0, and 0 when target_amount <= 0.
C5_SuccessRate ==
    \A c \in Calls :
        (pc[c] = "done" /\ ~target_amount[c].neg /\ ~monthly_saving[c].neg) =>
            LET rate == result[c].success_rate
            IN  /\ FLe(Zero, rate)
                /\ FLe(rate, Hundred)
                /\ IF IsZero(target_amount[c])
                   THEN rate = Zero
                   ELSE LET pct == FMul(FDiv(result[c].total_saved, target_amount[c]),
                                        Hundred)
                        IN  rate = (IF FLt(pct, Hundred) THEN pct ELSE Hundred)

C5_Witness ==
    \E c \in Calls :
        /\ pc[c] = "done"
        /\ ~monthly_saving[c].neg
        /\ FGt(target_amount[c], Zero)
        /\ FGt(result[c].total_saved, target_amount[c])
        /\ result[c].success_rate = Hundred

\* C6: with target_amount = 0 and monthly_contribution >= 0 the call never
\* fails, whatever the dates: it returns success_rate = 0, shortfall = 0 and
\* required_monthly = 0, and no divisor it uses is zero.
C6_ZeroTarget ==
    \A c \in Calls :
        (pc[c] # "idle" /\ IsZero(target_amount[c]) /\ ~monthly_saving[c].neg) =>
            /\ pc[c] # "raised"
            /\ Zero \notin divisors[c]
            /\ pc[c] = "done" =>
                   /\ result[c].success_rate = Zero
                   /\ result[c].shortfall = Zero
                   /\ result[c].required_monthly = Zero

C6_Witness ==
    \E c \in Calls :
        /\ pc[c] = "done"
        /\ IsZero(target_amount[c])
        /\ FGt(monthly_saving[c], Zero)
        /\ DateLe(target_date[c], start_date[c])
        /\ divisors[c] # {}
        /\ result[c].success_rate = Zero

\* C7: the ideal-pace value of entry i is required_monthly * i with
\* required_monthly = target_amount / months_to_target; it is 0 at index 0 and
\* exactly target_amount at the last index.
C7_IdealPace ==
    \A c \in Calls :
        pc[c] = "done" =>
            LET r == result[c]
                n == r.months_to_target
            IN  /\ r.required_monthly = FDiv(target_amount[c], FromInt(n))
                /\ \A i \in 0..n :
                       r.projection[i + 1].target_line =
                           FMul(r.required_monthly, FromInt(i))
                /\ r.projection[1].target_line = Zero
                /\ r.projection[n + 1].target_line = target_amount[c]

\* zero in place of a negative amount
ClampedAmount(x) == IF x.neg THEN Zero ELSE x

\* C8: a negative target_amount or monthly_contribution is rejected or
\* clamped to zero; no projection computed from the negative value is
\* returned.
C8_NegativeNotPropagated ==
    \A c \in Calls :
        (pc[c] = "done" /\ (target_amount[c].neg \/ monthly_saving[c].neg)) =>
            result[c] =
                calculate_savings_projection(ClampedAmount(target_amount[c]),
                                             ClampedAmount(monthly_saving[c]),
                                             start_date[c], target_date[c])

\* C9: invocations whose steps interleave each return what they would return
\* run alone on their own arguments, and invocations with equal arguments
\* return equal results.
C9_Independent ==
    /\ \A c \in Calls :
           pc[c] = "done" =>
               result[c] = calculate_savings_projection(target_amount[c],
                               monthly_saving[c], start_date[c], target_date[c])
    /\ \A c1, c2 \in Calls :
           (/\ pc[c1] = "done"
            /\ pc[c2] = "done"
            /\ target_amount[c1] = target_amount[c2]
            /\ monthly_saving[c1] = monthly_saving[c2]
            /\ start_date[c1] = start_date[c2]
            /\ target_date[c1] = target_date[c2]) => result[c1] = result[c2]

C9_Witness ==
    \E c1, c2 \in Calls :
        /\ c1 # c2
        /\ pc[c1] = "done"
        /\ pc[c2] = "done"
        /\ overlap[c1]
        /\ overlap[c2]
        /\ monthly_saving[c1] # monthly_saving[c2]

\* ------------------------------------------------------------------------
\* Properties of the submit branch.
\* ------------------------------------------------------------------------

NonBlank(name) == \E i \in 1..Len(name) : name[i] \notin Whitespace

\* HTTP status 200 and a body whose "success" field is truthy
Accepted(resp) ==
    /\ resp.kind = "http"
    /\ resp.status = 200
    /\ resp.json.t = "object"
    /\ "success" \in DOMAIN resp.json.v
    /\ Truthy(resp.json.v["success"])

\* C10: a request is sent only for a non-blank goal name (a blank one shows an
\* error and sends nothing); after a request exactly one notice is shown, the
\* success notice when the service answered 200 with a truthy "success" and
\* the failure notice in every other case; no exception escapes.
C10_SubmitNotices ==
    /\ posted > 0 => NonBlank(goal_name)
    /\ (page_pc = "rendered" /\ pressed /\ ~NonBlank(goal_name)) =>
           (posted = 0 /\ notices = <<"enter a goal name">>)
    /\ page_pc # "crashed"
    /\ (page_pc = "rendered" /\ posted > 0) =>
           /\ posted = 1
           /\ notices = IF Accepted(response) THEN <<"created">> ELSE <<"failed">>

====
